---- MODULE Spec2Model ----
(***************************************************************************)
(* Model of .github/scripts/run.py (tapmc-daily): the fetch / classify /   *)
(* publish pipeline of main() and the files it keeps under docs/.          *)
(*                                                                         *)
(* The persisted files are the shared state: state.json, veg_manifest.json,*)
(* the directory veg_pages/, veg.pdf and veg_web.png.  A run of main() is  *)
(* a process whose locals live in run[self]; its program counter walks     *)
(* through the statements of main().  Runs follow one another (Spec).      *)
(***************************************************************************)
EXTENDS Integers, Sequences, FiniteSets, TLC

VARIABLES
    stateFile,      \* docs/state.json            (STATE_PATH)
    manifestFile,   \* docs/veg_manifest.json     (MANIFEST_PATH)
    pagesDir,       \* docs/veg_pages/: file name -> content (PAGES_DIR)
    vegPdf,         \* docs/veg.pdf               (VEG_PDF)
    webshotFile,    \* docs/veg_web.png           (WEBSHOT)
    clock,          \* wall clock: number of runs started so far
    run             \* the locals of each run of main()

vars == <<stateFile, manifestFile, pagesDir, vegPdf, webshotFile, clock, run>>

----------------------------------------------------------------------------
(* Bounds of the model *)

MaxRuns == 2        \* runs of main() that follow one another
MaxPages == 3       \* page count of the longest report the site serves
MaxShots == 1       \* distinct screenshots the page can produce

(* Program constants *)

DPI == 220
Attempts == 3           \* for attempt in range(3)
MinBytes == 10000       \* st_size > 10_000
WhiteLimit == 985       \* white_ratio > 0.985, in thousandths

Procs == {1, 2}

----------------------------------------------------------------------------
(* Files and their contents *)

NoHash == 0     \* the "" that state.get("veg_pdf_sha256", "") defaults to

\* What the site can serve as veg.pdf.  first: what rendering page 1 at 80 dpi
\* does; white: thousandths of near-white pixels on page 1; full: what
\* rendering every page at DPI does.
ReadyPdf(n) ==
    [id |-> n, size |-> 2 * MinBytes, first |-> "ok",
     white |-> IF n = 1 THEN WhiteLimit ELSE 900, npages |-> n, full |-> "ok"]
TemplatePdf ==
    [id |-> 11, size |-> 2 * MinBytes, first |-> "ok", white |-> 990,
     npages |-> 1, full |-> "ok"]
UnreadablePdf ==
    [id |-> 12, size |-> 2 * MinBytes, first |-> "raise", white |-> 0,
     npages |-> 0, full |-> "raise"]
EmptyPdf ==
    [id |-> 13, size |-> 2 * MinBytes, first |-> "empty", white |-> 0,
     npages |-> 0, full |-> "ok"]
SmallPdf ==
    [id |-> 14, size |-> MinBytes, first |-> "ok", white |-> 900,
     npages |-> 1, full |-> "ok"]
BrokenPdf ==
    [id |-> 15, size |-> 2 * MinBytes, first |-> "ok", white |-> 900,
     npages |-> 2, full |-> "raise"]
NoPdf ==
    [id |-> 0, size |-> 0, first |-> "raise", white |-> 0, npages |-> 0,
     full |-> "raise"]

Artifacts ==
    {ReadyPdf(n) : n \in 1..MaxPages}
        \cup {TemplatePdf, UnreadablePdf, EmptyPdf, SmallPdf, BrokenPdf}

\* What page.screenshot can leave in veg_web.png.
Shot(w) == [id |-> w, size |-> 2 * MinBytes]
SmallShot == [id |-> 9, size |-> MinBytes]
NoShot == [id |-> 0, size |-> 0]
Shots == {Shot(w) : w \in 1..MaxShots} \cup {SmallShot}

\* Contents of a file of veg_pages/.
PdfPagePng(a, i) == [kind |-> "png", from |-> "pdf", id |-> a.id, page |-> i]
ShotPng(s) == [kind |-> "png", from |-> "shot", id |-> s.id, page |-> 1]
PartialPng == [kind |-> "partial", from |-> "", id |-> 0, page |-> 0]
NoFile == [kind |-> "absent", from |-> "", id |-> 0, page |-> 0]

\* f"veg_p{i:02d}.png" and out_png.with_suffix(".tmp.png")
PageName(i) == <<"veg_p", i, ".png">>
TmpName(i) == <<"veg_p", i, ".tmp.png">>
Names == {PageName(i) : i \in 1..MaxPages} \cup {TmpName(i) : i \in 1..MaxPages}
EmptyDir == [n \in Names |-> NoFile]
Files(dir) == {n \in Names : dir[n].kind # "absent"}
\* PAGES_DIR.glob("veg_p*.png") matches the temporary names too
GlobVegP(dir) ==
    {n \in Files(dir) : n[1] = "veg_p" /\ n[3] \in {".png", ".tmp.png"}}

\* sha256 of a file's bytes: distinct contents, distinct digests, none empty
Sha256Pdf(a) == 100 + a.id
Sha256Png(c) == IF c.from = "shot" THEN 200 + c.id ELSE 300 + 10 * c.id + c.page

\* The dict of state.json, with the keys main() reads or writes.
EmptyDict == [time_taipei |-> 0, status |-> "", veg_pdf_sha256 |-> NoHash,
              page_count |-> 0]
NoManifest == [date |-> 0, generated_at_taipei |-> 0, source |-> "",
               dpi |-> 0, veg_pdf_sha256 |-> NoHash, pages |-> <<>>]

Absent(json) == [kind |-> "absent", json |-> json]
Corrupt(json) == [kind |-> "corrupt", json |-> json]
Json(obj) == [kind |-> "json", json |-> obj]

\* load_json: {} for a missing or an unparsable file
load_json(file) == IF file.kind = "json" THEN file.json ELSE EmptyDict

\* strftime("%Y-%m-%d"): two consecutive runs may fall on the same day
Today(now) == (now + 1) \div 2

----------------------------------------------------------------------------
(* The readiness classifier *)

\* a classifier whose except branch answers False
pdf_is_blank_ExceptFalse(a) ==
    IF a.first = "raise" THEN FALSE
    ELSE IF a.first = "empty" THEN TRUE
    ELSE a.white > WhiteLimit

\* pdf_is_blank: True when page 1 cannot be rendered, when there is no page,
\* or when more than 98.5% of its pixels are near-white.
pdf_is_blank(a) ==
    IF a.first = "raise" THEN TRUE
    ELSE IF a.first = "empty" THEN TRUE
    ELSE a.white > WhiteLimit

----------------------------------------------------------------------------
(* A run of main() *)

IdleRun ==
    [pc |-> "idle", now |-> 0, status |-> "init", source |-> "None",
     attempt |-> 0, prev_hash |-> NoHash, state |-> EmptyDict,
     veg_hash |-> NoHash, images |-> NoPdf, img |-> NoShot, i |-> 0,
     pages |-> 0,
     \* history of the run, read by the properties only
     manifest0 |-> Absent(NoManifest), pages0 |-> EmptyDir, state0 |-> Absent(EmptyDict),
     loop |-> "", touched |-> FALSE, wroteManifest |-> FALSE,
     wroteState |-> FALSE, raisedAt |-> "",
     outcome |-> "", overlap |-> FALSE]

Init ==
    /\ stateFile = Absent(EmptyDict)
    /\ manifestFile = Absent(NoManifest)
    /\ pagesDir = EmptyDir
    /\ vegPdf = NoPdf
    /\ webshotFile = NoShot
    /\ clock = 0
    /\ run = [p \in Procs |-> IdleRun]

Ended(r) == r.pc \in {"done", "raised", "killed"}
Running(r) == r.pc # "idle" /\ ~Ended(r)

\* main() returns (pc "done") or an exception leaves it (pc "raised"): its
\* locals are gone, what the run did stays on record for the properties
Finish(r, pc, outcome, raisedAt) ==
    [IdleRun EXCEPT !.pc = pc, !.now = r.now, !.status = r.status,
                    !.source = r.source, !.veg_hash = r.veg_hash,
                    !.pages = r.pages, !.manifest0 = r.manifest0,
                    !.pages0 = r.pages0, !.state0 = r.state0, !.loop = r.loop,
                    !.touched = r.touched, !.wroteManifest = r.wroteManifest,
                    !.wroteState = r.wroteState,
                    !.raisedAt = raisedAt, !.outcome = outcome,
                    !.overlap = r.overlap]

\* lines 172-197: main() starts, reads state.json, opens the browser
Start(self) ==
    /\ run[self].pc = "idle" \/ Ended(run[self])
    /\ clock < MaxRuns
    /\ clock' = clock + 1
    /\ run' = [run EXCEPT ![self] =
            [IdleRun EXCEPT !.pc = "loop", !.now = clock + 1,
                            !.state = load_json(stateFile),
                            !.prev_hash = load_json(stateFile).veg_pdf_sha256,
                            !.manifest0 = manifestFile, !.pages0 = pagesDir,
                            !.state0 = stateFile,
                            !.overlap = \E q \in Procs \ {self} :
                                            Running(run[q])]]
    /\ UNCHANGED <<stateFile, manifestFile, pagesDir, vegPdf, webshotFile>>

\* lines 203-213: what one attempt makes of the download
AttemptStatus(ok, pdf) ==
    IF ok /\ pdf.id # NoPdf.id /\ pdf.size > MinBytes
    THEN IF ~pdf_is_blank(pdf) THEN "pdf_ok" ELSE "pdf_blank"
    ELSE "pdf_download_failed"

\* a retry loop without the break of line 209
AfterAttempt_NoBreak(r, st) ==
    [r EXCEPT !.status = st,
              !.source = IF st = "pdf_ok" THEN "pdf" ELSE r.source,
              !.attempt = r.attempt + 1,
              !.loop = IF r.attempt = 0 \/ r.loop = st THEN st ELSE "mixed",
              !.pc = IF r.attempt + 1 = Attempts
                     THEN (IF st = "pdf_ok" THEN "closed" ELSE "fallback")
                     ELSE "loop"]

\* lines 200-217: the locals after one iteration; break on pdf_ok, leave the
\* loop after the third iteration
AfterAttempt(r, st) ==
    [r EXCEPT !.status = st,
              !.source = IF st = "pdf_ok" THEN "pdf" ELSE r.source,
              !.attempt = r.attempt + 1,
              !.loop = IF r.attempt = 0 \/ r.loop = st THEN st ELSE "mixed",
              !.pc = IF st = "pdf_ok" THEN "closed"
                     ELSE IF r.attempt + 1 = Attempts THEN "fallback"
                     ELSE "loop"]

\* lines 200-217: one iteration of the retry loop
Attempt(self) ==
    /\ run[self].pc = "loop"
    /\ run[self].attempt < Attempts
    /\ \/ \* fill_date_and_query raises (page.goto): except Exception
          /\ run' = [run EXCEPT ![self] = AfterAttempt(@, "exception")]
          /\ UNCHANGED vegPdf
       \/ \* download_pdf returns False, veg.pdf is left as it was
          /\ run' = [run EXCEPT ![self] =
                        AfterAttempt(@, AttemptStatus(FALSE, vegPdf))]
          /\ UNCHANGED vegPdf
       \/ \* download_pdf saves what the site serves and returns True
          \E a \in Artifacts :
            /\ vegPdf' = a
            /\ run' = [run EXCEPT ![self] =
                        AfterAttempt(@, AttemptStatus(TRUE, a))]
    /\ UNCHANGED <<stateFile, manifestFile, pagesDir, webshotFile, clock>>

\* take_webshot: True when the screenshot was written and is big enough
take_webshot(shot) == shot.id # NoShot.id /\ shot.size > MinBytes

\* a failed screenshot that leaves the status of the last attempt
AfterWebshot_StatusLeft(r, good) ==
    [r EXCEPT !.status = IF good THEN "webshot_ok" ELSE r.status,
              !.source = IF good THEN "webshot" ELSE "none",
              !.pc = "closed"]

\* a failed screenshot that forgets source = "none"
AfterWebshot_SourceLeft(r, good) ==
    [r EXCEPT !.status = IF good THEN "webshot_ok" ELSE "webshot_failed",
              !.source = IF good THEN "webshot" ELSE r.source,
              !.pc = "closed"]

AfterWebshot(r, good) ==
    [r EXCEPT !.status = IF good THEN "webshot_ok" ELSE "webshot_failed",
              !.source = IF good THEN "webshot" ELSE "none",
              !.pc = "closed"]

\* lines 219-228: the screenshot fallback, taken when no attempt was ready
Fallback(self) ==
    /\ run[self].pc = "fallback"
    /\ run[self].source # "pdf"
    /\ \/ \* fill_date_and_query raises: nothing catches it
          /\ run' = [run EXCEPT ![self] = Finish(@, "raised", "", "fetch")]
          /\ UNCHANGED webshotFile
       \/ \* page.screenshot raises inside take_webshot: False
          /\ run' = [run EXCEPT ![self] = AfterWebshot(@, FALSE)]
          /\ UNCHANGED webshotFile
       \/ \E s \in Shots :
            /\ webshotFile' = s
            /\ run' = [run EXCEPT ![self] = AfterWebshot(@, take_webshot(s))]
    /\ UNCHANGED <<stateFile, manifestFile, pagesDir, vegPdf, clock>>

\* save_json: the file holds obj, or the write raises and leaves the file as
\* it was (open failed) or truncated (write failed part-way)
SaveOutcomes(file, obj, blank) ==
    {[file |-> Json(obj), ok |-> TRUE],
     [file |-> file, ok |-> FALSE],
     [file |-> Corrupt(blank), ok |-> FALSE]}

\* a failure record written from scratch instead of state.update
StateAfterFailure_Fresh(r) ==
    [EmptyDict EXCEPT !.time_taipei = r.now, !.status = r.status]

\* lines 235-238: state.update of the run whose two sources failed
StateAfterFailure(r) ==
    [r.state EXCEPT !.time_taipei = r.now, !.status = r.status]

\* lines 256-260 and 296-300: state.update of an unchanged fingerprint
StateAfterNoChange(r, h) ==
    [r.state EXCEPT !.time_taipei = r.now, !.status = "no_change",
                    !.veg_pdf_sha256 = h]

\* a publish that does not record the fingerprint in state.json
StateAfterPublish_NoHash(r) ==
    [r.state EXCEPT !.time_taipei = r.now, !.status = r.status,
                    !.page_count = r.pages]

\* lines 273-278 and 309-314: state.update of a publish
StateAfterPublish(r) ==
    [r.state EXCEPT !.time_taipei = r.now, !.status = r.status,
                    !.veg_pdf_sha256 = r.veg_hash, !.page_count = r.pages]

\* lines 233-240: both sources failed
SaveFailed(self) ==
    /\ run[self].pc = "closed"
    /\ run[self].source = "none"
    /\ LET st == StateAfterFailure(run[self])
       IN \E o \in SaveOutcomes(stateFile, st, EmptyDict) :
            /\ stateFile' = o.file
            /\ run' = [run EXCEPT ![self] =
                    IF o.ok
                    THEN Finish([@ EXCEPT !.wroteState = TRUE], "done", "failed", "")
                    ELSE Finish(@, "raised", "", "save")]
    /\ UNCHANGED <<manifestFile, pagesDir, vegPdf, webshotFile, clock>>

\* MANIFEST_PATH.exists()
ManifestExists == manifestFile.kind # "absent"

\* a change test that never finds the fingerprint unchanged
Unchanged_Never(veg_hash, prev_hash) == FALSE

\* lines 255 and 295: nothing to publish when the fingerprint is the one
\* state.json holds and a manifest file is there
Unchanged(veg_hash, prev_hash) == veg_hash = prev_hash /\ ManifestExists

\* lines 256-262 and 296-302: record no_change and return
SaveNoChange(self, h) ==
    LET st == StateAfterNoChange(run[self], h)
    IN \E o \in SaveOutcomes(stateFile, st, EmptyDict) :
         /\ stateFile' = o.file
         /\ run' = [run EXCEPT ![self] =
                 IF o.ok
                 THEN Finish([@ EXCEPT !.veg_hash = h, !.wroteState = TRUE],
                             "done", "no_change", "")
                 ELSE Finish([@ EXCEPT !.veg_hash = h], "raised", "", "save")]

\* lines 250-262: fingerprint veg.pdf and compare it with state.json's
DetectChangePdf(self) ==
    /\ run[self].pc = "closed"
    /\ run[self].source = "pdf"
    /\ LET h == Sha256Pdf(vegPdf)
       IN IF Unchanged(h, run[self].prev_hash)
          THEN SaveNoChange(self, h)
          ELSE /\ run' = [run EXCEPT ![self].veg_hash = h,
                                     ![self].pc = "render"]
               /\ UNCHANGED stateFile
    /\ UNCHANGED <<manifestFile, pagesDir, vegPdf, webshotFile, clock>>

\* line 142: convert_from_path(pdf_path, dpi=DPI), outside any try
Render(self) ==
    /\ run[self].pc = "render"
    /\ run' = IF vegPdf.full = "ok"
              THEN [run EXCEPT ![self].images = vegPdf,
                               ![self].i = 1,
                               ![self].pages = 0,
                               ![self].pc = IF vegPdf.npages >= 1
                                            THEN "save_tmp" ELSE "clean"]
              ELSE [run EXCEPT ![self] = Finish(@, "raised", "", "render")]
    /\ UNCHANGED <<stateFile, manifestFile, pagesDir, vegPdf, webshotFile,
                   clock>>

\* line 148: img.save(tmp) opens the temporary file and starts writing
SaveTmpBegin(self) ==
    /\ run[self].pc = "save_tmp"
    /\ pagesDir' = [pagesDir EXCEPT ![TmpName(run[self].i)] = PartialPng]
    /\ run' = [run EXCEPT ![self].pc = "save_tmp_end",
                          ![self].touched = TRUE]
    /\ UNCHANGED <<stateFile, manifestFile, vegPdf, webshotFile, clock>>

\* line 148: img.save(tmp) completes, or raises and leaves the partial file
SaveTmpEnd(self) ==
    /\ run[self].pc = "save_tmp_end"
    /\ \/ \* the bytes go to the open file; a name unlinked meanwhile stays gone
          /\ pagesDir' = IF pagesDir[TmpName(run[self].i)].kind = "absent"
                         THEN pagesDir
                         ELSE [pagesDir EXCEPT ![TmpName(run[self].i)] =
                                PdfPagePng(run[self].images, run[self].i)]
          /\ run' = [run EXCEPT ![self].pc = "replace"]
       \/ /\ run' = [run EXCEPT ![self] = Finish(@, "raised", "", "render")]
          /\ UNCHANGED pagesDir
    /\ UNCHANGED <<stateFile, manifestFile, vegPdf, webshotFile, clock>>

\* lines 149-150: tmp.replace(out_png), an atomic rename, then the next page;
\* the rename raises when the temporary file is no longer there
Replace(self) ==
    /\ run[self].pc = "replace"
    /\ LET i == run[self].i
       IN IF pagesDir[TmpName(i)].kind = "absent"
          THEN /\ run' = [run EXCEPT ![self] = Finish(@, "raised", "", "render")]
               /\ UNCHANGED pagesDir
          ELSE /\ pagesDir' = [pagesDir EXCEPT
                                  ![PageName(i)] = pagesDir[TmpName(i)],
                                  ![TmpName(i)] = NoFile]
               /\ run' = [run EXCEPT ![self].pages = i,
                                     ![self].i = i + 1,
                                     ![self].touched = TRUE,
                                     ![self].pc = IF i < run[self].images.npages
                                                  THEN "save_tmp" ELSE "clean"]
    /\ UNCHANGED <<stateFile, manifestFile, vegPdf, webshotFile, clock>>

\* a keep set that misses the last rendered page
KeepNames_OffByOne(r) ==
    IF r.source = "pdf" THEN {PageName(i) : i \in 1..(r.pages - 1)}
    ELSE {PageName(1)}

\* a clean_extra_pages that keeps every file it finds
KeepNames_All(r) == Names

\* lines 265-266 and 290: the names clean_extra_pages is told to keep
KeepNames(r) ==
    IF r.source = "pdf" THEN {PageName(i) : i \in 1..r.pages}
    ELSE {PageName(1)}

\* lines 153-159: clean_extra_pages unlinks one file that is not kept.  The
\* unlink of a file the glob just listed removes it; the except branch is
\* for a file that is already gone, which leaves the directory the same.
CleanExtraPage(self) ==
    /\ run[self].pc = "clean"
    /\ \E p \in GlobVegP(pagesDir) \ KeepNames(run[self]) :
         pagesDir' = [pagesDir EXCEPT ![p] = NoFile]
    /\ run' = [run EXCEPT ![self].touched = TRUE]
    /\ UNCHANGED <<stateFile, manifestFile, vegPdf, webshotFile, clock>>

\* lines 153-159: the glob is exhausted
CleanDone(self) ==
    /\ run[self].pc = "clean"
    /\ GlobVegP(pagesDir) \ KeepNames(run[self]) = {}
    /\ run' = [run EXCEPT ![self].pc = IF run[self].source = "pdf"
                                       THEN "save_state" ELSE "ws_hash"]
    /\ UNCHANGED <<stateFile, manifestFile, pagesDir, vegPdf, webshotFile,
                   clock>>

\* lines 273-279 and 309-315: state.update(...), save_json(STATE_PATH, state)
SaveState(self) ==
    /\ run[self].pc = "save_state"
    /\ LET st == StateAfterPublish(run[self])
       IN \E o \in SaveOutcomes(stateFile, st, EmptyDict) :
            /\ stateFile' = o.file
            /\ run' = [run EXCEPT ![self] =
                    IF o.ok
                    THEN [@ EXCEPT !.state = st, !.wroteState = TRUE,
                                   !.pc = "save_manifest"]
                    ELSE Finish(@, "raised", "", "save")]
    /\ UNCHANGED <<manifestFile, pagesDir, vegPdf, webshotFile, clock>>

\* lines 242-248, 268-271, 304-307: the manifest dict of this run
Manifest(r) ==
    [date |-> Today(r.now), generated_at_taipei |-> r.now, source |-> r.source,
     dpi |-> DPI, veg_pdf_sha256 |-> r.veg_hash,
     pages |-> [i \in 1..r.pages |-> PageName(i)]]

\* lines 280 and 316: save_json(MANIFEST_PATH, manifest)
SaveManifest(self) ==
    /\ run[self].pc = "save_manifest"
    /\ \E o \in SaveOutcomes(manifestFile, Manifest(run[self]), NoManifest) :
         /\ manifestFile' = o.file
         /\ run' = [run EXCEPT ![self] =
                 IF o.ok
                 THEN Finish([@ EXCEPT !.wroteManifest = TRUE],
                             "done", "published", "")
                 ELSE Finish(@, "raised", "", "save")]
    /\ UNCHANGED <<stateFile, pagesDir, vegPdf, webshotFile, clock>>

\* lines 285-287: Image.open(WEBSHOT); img.save(out_png) opens veg_p01.png
\* itself and starts writing
SaveShotBegin(self) ==
    /\ run[self].pc = "closed"
    /\ run[self].source \notin {"none", "pdf"}
    /\ pagesDir' = [pagesDir EXCEPT ![PageName(1)] = PartialPng]
    /\ run' = [run EXCEPT ![self].img = webshotFile,
                          ![self].touched = TRUE,
                          ![self].pc = "save_shot_end"]
    /\ UNCHANGED <<stateFile, manifestFile, vegPdf, webshotFile, clock>>

\* line 287: img.save(out_png) completes, or raises and leaves the partial file
SaveShotEnd(self) ==
    /\ run[self].pc = "save_shot_end"
    /\ \/ /\ pagesDir' = IF pagesDir[PageName(1)].kind = "absent"
                         THEN pagesDir
                         ELSE [pagesDir EXCEPT ![PageName(1)] =
                                                    ShotPng(run[self].img)]
          /\ run' = [run EXCEPT ![self].pages = 1, ![self].pc = "clean"]
       \/ /\ run' = [run EXCEPT ![self] = Finish(@, "raised", "", "webshot")]
          /\ UNCHANGED pagesDir
    /\ UNCHANGED <<stateFile, manifestFile, vegPdf, webshotFile, clock>>

\* lines 292-302: fingerprint veg_p01.png and compare it with state.json's;
\* sha256_file raises when the file is no longer there
DetectChangeShot(self) ==
    /\ run[self].pc = "ws_hash"
    /\ LET h == Sha256Png(pagesDir[PageName(1)])
       IN IF pagesDir[PageName(1)].kind = "absent"
          THEN /\ run' = [run EXCEPT ![self] = Finish(@, "raised", "", "webshot")]
               /\ UNCHANGED stateFile
          ELSE IF Unchanged(h, run[self].prev_hash)
          THEN SaveNoChange(self, h)
          ELSE /\ run' = [run EXCEPT ![self].veg_hash = h,
                                     ![self].pc = "save_state"]
               /\ UNCHANGED stateFile
    /\ UNCHANGED <<manifestFile, pagesDir, vegPdf, webshotFile, clock>>

\* the process is killed from outside between two steps
Kill(self) ==
    /\ run[self].pc \notin {"idle", "done", "raised", "killed"}
    /\ run' = [run EXCEPT ![self] =
                    [IdleRun EXCEPT !.pc = "killed", !.now = run[self].now,
                                    !.source = run[self].source]]
    /\ UNCHANGED <<stateFile, manifestFile, pagesDir, vegPdf, webshotFile,
                   clock>>

\* the next statement of the run
Proceed(self) ==
    \/ Attempt(self)
    \/ Fallback(self)
    \/ SaveFailed(self)
    \/ DetectChangePdf(self)
    \/ Render(self)
    \/ SaveTmpBegin(self)
    \/ SaveTmpEnd(self)
    \/ Replace(self)
    \/ CleanExtraPage(self)
    \/ CleanDone(self)
    \/ SaveState(self)
    \/ SaveManifest(self)
    \/ SaveShotBegin(self)
    \/ SaveShotEnd(self)
    \/ DetectChangeShot(self)

Step(self) == Proceed(self) \/ Kill(self)

\* Runs follow one another: the scheduler starts a run when none is going on.
Next == Start(1) \/ Step(1)

Spec == Init /\ [][Next]_vars

\* The store as a run that published a ready PDF leaves it (lines 264-281):
\* the pages of veg.pdf, state.json and the manifest with its fingerprint.
Published(a, now) ==
    LET done == [IdleRun EXCEPT !.now = now, !.status = "pdf_ok",
                                !.source = "pdf", !.veg_hash = Sha256Pdf(a),
                                !.pages = a.npages]
    IN /\ stateFile = Json(StateAfterPublish(done))
       /\ manifestFile = Json(Manifest(done))
       /\ pagesDir = [n \in Names |->
                        IF \E i \in 1..a.npages : n = PageName(i)
                        THEN PdfPagePng(a, n[2]) ELSE NoFile]
       /\ vegPdf = a

\* Runs that start on a store an earlier run has published.
InitPublished ==
    /\ \E a \in {ReadyPdf(n) : n \in 1..MaxPages} : Published(a, 0)
    /\ webshotFile = NoShot
    /\ clock = 0
    /\ run = [p \in Procs |-> IdleRun]

SpecPublished == InitPublished /\ [][Next]_vars

\* Nothing in main() takes a lock: a second run may start while the first is
\* going on, and their statements interleave in any order.
NextConcurrent == Start(1) \/ Start(2) \/ Proceed(1) \/ Proceed(2)

SpecConcurrent == Init /\ [][NextConcurrent]_vars

----------------------------------------------------------------------------
(* Properties.  Runs follow one another in Spec, so run[1] is the run. *)

r == run[1]

Returned == r.pc = "done"
Over == r.pc \in {"done", "raised"}

\* the pages directory holds exactly the files it held when the run started
PagesUntouched == pagesDir = r.pages0
ManifestUntouched == manifestFile = r.manifest0

\* the change test of the run, restated from what the run found at its start
FoundChanged ==
    \/ r.veg_hash # load_json(r.state0).veg_pdf_sha256
    \/ r.manifest0.kind = "absent"

ListedPages(m) == {m.pages[i] : i \in DOMAIN m.pages}

Corresponds(m, dir) ==
    /\ \A n \in ListedPages(m) : dir[n].kind = "png"
    /\ IF m.source = "pdf"
       THEN \E a \in Artifacts :
              /\ Sha256Pdf(a) = m.veg_pdf_sha256
              /\ Len(m.pages) = a.npages
              /\ \A i \in 1..a.npages : dir[m.pages[i]] = PdfPagePng(a, i)
       ELSE /\ m.pages = <<PageName(1)>>
            /\ Sha256Png(dir[PageName(1)]) = m.veg_pdf_sha256

\* C4 as the spec states it: in every state the manifest's fingerprint is
\* that of the page images on disk and every page it lists is a complete
\* file.
C4_Original ==
    manifestFile.kind = "json" => Corresponds(manifestFile.json, pagesDir)

\* C5 as the spec states it: a run that ends no_change leaves the manifest as
\* it was, and the fingerprint it wrote to state.json is the manifest's.
C5_Original ==
    (Returned /\ r.outcome = "no_change")
        => /\ ManifestUntouched
           /\ manifestFile.kind = "json"
           /\ stateFile.json.veg_pdf_sha256 = manifestFile.json.veg_pdf_sha256

\* the manifest a first run wrote when it published the PDF now in veg.pdf
FirstRunPublished(m) ==
    /\ m.kind = "json"
    /\ m.json.generated_at_taipei = 1
    /\ m.json.source = "pdf"
    /\ m.json.veg_pdf_sha256 = Sha256Pdf(vegPdf)

\* C6: from an empty store, a first run that gets a ready PDF publishes it,
\* and a second run that gets the same PDF ends no_change and leaves the
\* manifest of the first run as it is.
C6_Idempotent ==
    /\ (clock = 1 /\ Returned /\ r.source = "pdf")
            => (r.outcome = "published" /\ FirstRunPublished(manifestFile))
    /\ (clock = 2 /\ Returned /\ r.source = "pdf"
             /\ FirstRunPublished(r.manifest0))
            => (r.outcome = "no_change" /\ ManifestUntouched)

C6_Witness ==
    /\ clock = 2
    /\ Returned
    /\ r.source = "pdf"
    /\ FirstRunPublished(r.manifest0)
    /\ r.outcome = "no_change"
    /\ manifestFile.json.generated_at_taipei # r.now

C8_Original == Over => r.wroteState

\* C9: an artifact whose first page cannot be rendered, or has no page, is
\* never taken as ready: the attempt that classified it ends pdf_blank and
\* the source is pdf only for a PDF that rendered and is not blank.
C9_UnreadableIsNotReady ==
    /\ r.source = "pdf"
            => (vegPdf.first = "ok" /\ vegPdf.white <= WhiteLimit)
    /\ (r.pc \in {"loop", "fallback", "closed"}
            /\ r.status \in {"pdf_ok", "pdf_blank"} /\ vegPdf.first # "ok")
            => (r.status = "pdf_blank" /\ r.source # "pdf")

C9_Witness ==
    /\ r.pc = "loop"
    /\ r.status = "pdf_blank"
    /\ vegPdf.first = "raise"
    /\ r.source # "pdf"

\* C10 as the spec states it, for the renderer: an error raised while
\* rendering never ends the run as a crash.
C10_Original == ~(r.pc = "raised" /\ r.raisedAt = "render")

\* C11 as the spec states it: no final page name ever holds a partially
\* written file.
C11_Original ==
    \A i \in 1..MaxPages : pagesDir[PageName(i)].kind # "partial"

\* C15 as the spec states it: state.json never records the fingerprint of a
\* publish while the manifest does not hold that fingerprint.
C15_Original ==
    (stateFile.kind = "json"
        /\ stateFile.json.status \in {"pdf_ok", "webshot_ok"}
        /\ r.pc \notin {"killed", "raised"})
        => /\ manifestFile.kind = "json"
           /\ manifestFile.json.veg_pdf_sha256 = stateFile.json.veg_pdf_sha256

\* C17: a run whose two sources failed changes the time and the status of
\* state.json and nothing else of it: the stored fingerprint and page count
\* stay, and neither the manifest nor a page image is written or deleted.
C17_FailureKeepsFingerprint ==
    (Returned /\ r.outcome = "failed")
        => /\ stateFile.kind = "json"
           /\ stateFile.json.time_taipei = r.now
           /\ stateFile.json.status = "webshot_failed"
           /\ stateFile.json.veg_pdf_sha256 = load_json(r.state0).veg_pdf_sha256
           /\ stateFile.json.page_count = load_json(r.state0).page_count
           /\ ManifestUntouched
           /\ PagesUntouched
           /\ ~r.touched /\ ~r.wroteManifest

C17_Witness ==
    /\ Returned
    /\ r.outcome = "failed"
    /\ r.state0.kind = "json"
    /\ r.state0.json.veg_pdf_sha256 # NoHash
    /\ r.state0.json.page_count >= 2
    /\ stateFile.json.time_taipei # r.state0.json.time_taipei

PersistedStatuses == {"pdf_ok", "webshot_ok", "webshot_failed", "no_change"}

\* C18: the status state.json holds is pdf_ok, webshot_ok, webshot_failed or
\* no_change; init, pdf_blank, pdf_download_failed and exception are never
\* written.
C18_PersistedStatus ==
    stateFile.kind = "json" => stateFile.json.status \in PersistedStatuses

C18_Witness ==
    /\ Returned
    /\ r.loop = "exception"
    /\ stateFile.kind = "json"
    /\ stateFile.json.status = "webshot_failed"
    /\ stateFile.json.time_taipei = r.now

\* How many statements a run has left at most: every statement of main()
\* lowers it, so a run whose calls return comes to an end.
CleanRank == 4 + 2 * MaxPages
Rank(rr, dir) ==
    CASE rr.pc = "loop" -> CleanRank + 3 * MaxPages + 4 + (Attempts - rr.attempt)
      [] rr.pc = "fallback" -> CleanRank + 3 * MaxPages + 3
      [] rr.pc = "closed" -> CleanRank + 3 * MaxPages + 2
      [] rr.pc = "render" -> CleanRank + 3 * MaxPages + 1
      [] rr.pc = "save_shot_end" -> CleanRank + 3 * MaxPages + 1
      [] rr.pc = "save_tmp" -> CleanRank + 3 * (MaxPages - rr.i) + 3
      [] rr.pc = "save_tmp_end" -> CleanRank + 3 * (MaxPages - rr.i) + 2
      [] rr.pc = "replace" -> CleanRank + 3 * (MaxPages - rr.i) + 1
      [] rr.pc = "clean" -> 4 + Cardinality(GlobVegP(dir) \ KeepNames(rr))
      [] rr.pc = "ws_hash" -> 3
      [] rr.pc = "save_state" -> 2
      [] rr.pc = "save_manifest" -> 1
      [] OTHER -> 0

\* the loop makes at most three attempts, and none after a ready PDF: a run
\* whose source is pdf is past the loop and past the fallback
RetryBounded ==
    /\ r.attempt <= Attempts
    /\ r.pc = "loop" => r.attempt < Attempts
    /\ r.pc = "fallback" => (r.attempt = Attempts /\ r.source # "pdf")
    /\ r.source = "pdf" => r.pc \notin {"loop", "fallback"}
    /\ (r.source = "pdf" /\ r.pc # "killed") => r.status = "pdf_ok"
    /\ Running(r) => ENABLED Proceed(1)

\* C13: a run makes at most 3 attempts, none after the first ready PDF
\* (that run goes on with source pdf and no fallback), and it comes to an
\* end: a running run always has a next statement and each statement lowers
\* the count of those left.
C13_BoundedRetry ==
    /\ []RetryBounded
    /\ [][Running(r) => Rank(r, pagesDir)' < Rank(r, pagesDir)]_vars

\* a PDF found ready at the second attempt: no third attempt, no fallback
C13_Witness ==
    /\ r.pc = "closed"
    /\ r.source = "pdf"
    /\ r.attempt = 2
    /\ r.loop = "mixed"

\* the page images the run is putting in place are all under their final
\* names
NewPagesWritten ==
    IF r.source = "pdf"
    THEN /\ r.images.npages >= 1
         /\ \A i \in 1..r.images.npages :
                pagesDir[PageName(i)] = PdfPagePng(r.images, i)
    ELSE pagesDir[PageName(1)] = ShotPng(r.img)

\* C14: a step that deletes a page image under its final name is a step of
\* clean_extra_pages taken when every page of the new set is in place, and
\* it deletes a page that is not of the new set.
C14_PruneAfterWrite ==
    [][\A i \in 1..MaxPages :
          (pagesDir[PageName(i)].kind # "absent"
              /\ pagesDir'[PageName(i)].kind = "absent")
          => /\ r.pc = "clean"
             /\ NewPagesWritten
             /\ i > (IF r.source = "pdf" THEN r.images.npages ELSE 1)]_vars

\* a stale page has just been pruned from a set that shrank
C14_Witness ==
    /\ r.pc = "clean"
    /\ r.source = "pdf"
    /\ NewPagesWritten
    /\ \E i \in 1..MaxPages :
          /\ r.pages0[PageName(i)].kind = "png"
          /\ pagesDir[PageName(i)].kind = "absent"

----------------------------------------------------------------------------
(* Change detection and recovery, on a store that was published before *)

\* C12 as the spec states it: a run with a ready PDF that returns ends
\* no_change exactly when the fingerprint of the PDF is the one the manifest
\* stored when the run started, and publishes otherwise; ending no_change
\* leaves the manifest and the page images as they were.
C12_Original ==
    (Returned /\ r.source = "pdf")
        => /\ r.outcome = "no_change"
                <=> (/\ r.manifest0.kind = "json"
                     /\ r.manifest0.json.veg_pdf_sha256 = r.veg_hash)
           /\ r.outcome = "no_change" => (ManifestUntouched /\ PagesUntouched)
           /\ r.outcome # "no_change" => r.outcome = "published"

\* state.json records a PDF publish the manifest does not know of: the run
\* that wrote it saved state.json (line 279) and never saved the manifest
\* (line 280), while the manifest of an older publish is there.
InterruptedPublish(state, manifest) ==
    /\ state.kind = "json"
    /\ manifest.kind = "json"
    /\ state.json.status = "pdf_ok"
    /\ state.json.time_taipei > manifest.json.generated_at_taipei
    /\ state.json.veg_pdf_sha256 # manifest.json.veg_pdf_sha256

\* C19 as the spec states it: a run that starts after an interrupted publish,
\* fetches the PDF the interrupted run was publishing and returns, leaves a
\* manifest with that fingerprint whose page list matches the page images.
C19_Original ==
    (/\ Returned
     /\ r.source = "pdf"
     /\ InterruptedPublish(r.state0, r.manifest0)
     /\ r.veg_hash = r.state0.json.veg_pdf_sha256)
        => /\ manifestFile.kind = "json"
           /\ manifestFile.json.veg_pdf_sha256 = r.veg_hash
           /\ Corresponds(manifestFile.json, pagesDir)

----------------------------------------------------------------------------
(* Two runs on the same output directory *)

\* the manifest's fingerprint or page list does not match the page images
Mismatch ==
    manifestFile.kind = "json" /\ ~Corresponds(manifestFile.json, pagesDir)

\* some run started while another one was going on
Interleaved == \E p \in Procs : run[p].overlap

\* both runs have returned from a publish, none raised, and the manifest
\* does not match the pages: what the interleaving alone leaves behind
RaceLeftMismatch ==
    /\ \A p \in Procs : run[p].pc = "done" /\ run[p].outcome = "published"
    /\ Interleaved
    /\ Mismatch

\* C16 as the spec states it: a state in which the manifest does not match
\* the page images comes from the interleaving of two runs, never from a run
\* that had the output directory to itself.
C16_Original == Mismatch => Interleaved

====
